---- MODULE Spec2Model ----
(***************************************************************************)
(* Model of tutorials/cmake_python_wrapper/v1/python/foo/__init__.py:      *)
(* a ctypes binding that loads libfoo.so when the module is imported,      *)
(* declares the call descriptor of the exported symbol `square` and wraps  *)
(* it in the Python function square(value).                                *)
(*                                                                         *)
(* Modelling conventions                                                   *)
(*  - The native int is IntBits wide (a scaled-down ctypes.c_int); all     *)
(*    arithmetic on native values is done modulo 2^IntBits.                *)
(*  - The interpreter's own modules (ctypes, os) and the numpy dependency  *)
(*    imported on lines 1-3 are installed; those imports bind names only.  *)
(*  - libfoo.so itself is not part of the Python source; its `square` is   *)
(*    the wrapping multiplication the specification describes.             *)
(*  - The file system does not change while the process runs: whether      *)
(*    libfoo.so is present and whether it exports `square` is chosen once. *)
(***************************************************************************)
EXTENDS Integers, Sequences, FiniteSets, TLC

(* ---------------------------- bounds ----------------------------------- *)
IntBits == 6
MaxImports == 3
NumThreads == 2

(* ------------------------ derived constants ---------------------------- *)
RECURSIVE Pow2(_)
Pow2(k) == IF k = 0 THEN 1 ELSE 2 * Pow2(k - 1)

TwoPowW == Pow2(IntBits)
MAX_INT == Pow2(IntBits - 1) - 1
MIN_INT == 0 - Pow2(IntBits - 1)
NativeInts == MIN_INT .. MAX_INT
\* Python integers handed to square(): the native range and a margin of
\* out-of-range values on both sides.
PyInts == (0 - TwoPowW) .. TwoPowW
Threads == 1 .. NumThreads
MainThread == 1
\* arguments used when several threads call concurrently
ConcArgs == {0, 1, 5, 0 - 5, MAX_INT, MIN_INT, TwoPowW + 3}

Abs(n) == IF n < 0 THEN 0 - n ELSE n
FloorSqrt(m) == CHOOSE r \in 0 .. m : r * r <= m /\ (r + 1) * (r + 1) > m

(* ------------------------ ctypes conversions --------------------------- *)
\* ctypes.c_int used as an argument type: a Python int is stored without a
\* range check, keeping the low IntBits bits, read back as a signed value.
c_int_from_paramChecked(value) ==
    IF value > MAX_INT THEN MAX_INT ELSE IF value < MIN_INT THEN MIN_INT ELSE value

c_int_from_param(value) ==
    LET low == value % TwoPowW
    IN  IF low >= Pow2(IntBits - 1) THEN low - TwoPowW ELSE low

\* ctypes.c_int used as restype: the IntBits-wide return register is read
\* as a signed integer and handed back as a Python int.
c_int_restypeUnsigned(raw) == raw

c_int_restypeNarrow(raw) ==
    LET low == raw % Pow2(IntBits - 2)
    IN  IF low >= Pow2(IntBits - 3) THEN low - Pow2(IntBits - 2) ELSE low

c_int_restype(raw) ==
    IF raw >= Pow2(IntBits - 1) THEN raw - TwoPowW ELSE raw

\* int square(int) exported by libfoo.so: the product, wrapped to the
\* native width, left in the return register (bit pattern 0 .. 2^w - 1).
native_square(cvalue) == (cvalue * cvalue) % TwoPowW

(* ------------------------------ state ---------------------------------- *)
VARIABLES
    libPresent,     \* libfoo.so can be found and loaded by the dynamic loader
    symPresent,     \* the loaded library exports the symbol `square`
    importPc,       \* position of the running import of the module body
    lib,            \* module global `lib` (the CDLL object) and its cached lib.square
    squareDefined,  \* module global `square` is bound: the import completed
    raised,         \* outcome of the last import: exception type and line
    attempts,       \* imports begun
    okImports,      \* imports that returned the module
    failImports,    \* imports that raised
    dlopens,        \* dlopen() calls made on libfoo.so (never closed by ctypes)
    atLoad,         \* value of `lib` when the first import completed
    pc,             \* per thread: position in a call of square
    arg,            \* per thread: Python argument `value`
    carg,           \* per thread: marshalled native argument
    raw,            \* per thread: native return register
    result          \* per thread: Python value returned by square

envVars == <<libPresent, symPresent>>
importVars == <<importPc, lib, squareDefined, raised, attempts, okImports,
                failImports, dlopens, atLoad>>
callVars == <<pc, arg, carg, raw, result>>
vars == <<libPresent, symPresent, importPc, lib, squareDefined, raised, attempts,
          okImports, failImports, dlopens, atLoad, pc, arg, carg, raw, result>>

LibHandle == 1
NoLib == [handle |-> 0, bound |-> FALSE, restype |-> "None", argtypes |-> "None"]
NoError == [type |-> "none", line |-> 0]

Loaded == squareDefined /\ lib.handle # 0 /\ lib.bound
Unloaded == ~Loaded

Init ==
    /\ libPresent \in BOOLEAN
    /\ symPresent \in BOOLEAN
    /\ (symPresent => libPresent)
    /\ importPc = "idle"
    /\ lib = NoLib
    /\ squareDefined = FALSE
    /\ raised = NoError
    /\ attempts = 0
    /\ okImports = 0
    /\ failImports = 0
    /\ dlopens = 0
    /\ atLoad = NoLib
    /\ pc = [t \in Threads |-> "idle"]
    /\ arg = [t \in Threads |-> 0]
    /\ carg = [t \in Threads |-> 0]
    /\ raw = [t \in Threads |-> 0]
    /\ result = [t \in Threads |-> 0]

(* --------------------------- import foo -------------------------------- *)
\* The import raises: the exception reaches the importer, the partially
\* initialised module and its namespace are dropped.
ImportFails(type, line) ==
    /\ importPc' = "idle"
    /\ lib' = NoLib
    /\ squareDefined' = FALSE
    /\ raised' = [type |-> type, line |-> line]
    /\ failImports' = failImports + 1

\* `import foo` when the module is not in sys.modules: lines 1-5 run.
ImportBegin ==
    /\ importPc = "idle"
    /\ ~squareDefined
    /\ attempts < MaxImports
    /\ attempts' = attempts + 1
    /\ importPc' = "l7"
    /\ UNCHANGED <<lib, squareDefined, raised, okImports, failImports, dlopens, atLoad>>
    /\ UNCHANGED envVars
    /\ UNCHANGED callVars

\* `import foo` when the module is already in sys.modules: the cached module
\* is returned, the module body is not run again.
ImportReexec ==
    /\ importPc = "idle"
    /\ squareDefined
    /\ attempts < MaxImports
    /\ attempts' = attempts + 1
    /\ importPc' = "l7"
    /\ UNCHANGED <<lib, squareDefined, raised, okImports, failImports, dlopens, atLoad>>
    /\ UNCHANGED envVars
    /\ UNCHANGED callVars

ImportCached ==
    /\ importPc = "idle"
    /\ squareDefined
    /\ attempts < MaxImports
    /\ attempts' = attempts + 1
    /\ okImports' = okImports + 1
    /\ raised' = [type |-> "ok", line |-> 0]
    /\ UNCHANGED <<importPc, lib, squareDefined, failImports, dlopens, atLoad>>
    /\ UNCHANGED envVars
    /\ UNCHANGED callVars

\* line 7: lib = ctypes.cdll.LoadLibrary("libfoo.so")
LoadLibrarySwallow ==
    /\ importPc = "l7"
    /\ IF libPresent
       THEN /\ lib' = [handle |-> LibHandle, bound |-> FALSE,
                       restype |-> "None", argtypes |-> "None"]
            /\ dlopens' = dlopens + 1
       ELSE /\ lib' = NoLib
            /\ dlopens' = dlopens
    /\ importPc' = "l8"
    /\ UNCHANGED <<squareDefined, raised, failImports>>
    /\ UNCHANGED <<attempts, okImports, atLoad>>
    /\ UNCHANGED envVars
    /\ UNCHANGED callVars

LoadLibrary ==
    /\ importPc = "l7"
    /\ IF libPresent
       THEN /\ lib' = [handle |-> LibHandle, bound |-> FALSE,
                       restype |-> "None", argtypes |-> "None"]
            /\ dlopens' = dlopens + 1
            /\ importPc' = "l8"
            /\ UNCHANGED <<squareDefined, raised, failImports>>
       ELSE /\ ImportFails("OSError", 7)
            /\ UNCHANGED dlopens
    /\ UNCHANGED <<attempts, okImports, atLoad>>
    /\ UNCHANGED envVars
    /\ UNCHANGED callVars

\* lib.square: CDLL.__getattr__ resolves the symbol on first access, caches
\* the function object on the CDLL (default restype c_int, argtypes None) and
\* raises AttributeError when the library has no such symbol.
CanResolve == lib.handle # 0 /\ (lib.bound \/ symPresent)
GetSquare(l) ==
    IF l.bound THEN l
    ELSE [l EXCEPT !.bound = TRUE, !.restype = "c_int", !.argtypes = "None"]

\* line 8: lib.square.restype = ctypes.c_int
SetRestypeLazy ==
    /\ importPc = "l8"
    /\ lib' = [lib EXCEPT !.bound = TRUE, !.restype = "c_int", !.argtypes = "None"]
    /\ importPc' = "l9"
    /\ UNCHANGED <<squareDefined, raised, failImports>>
    /\ UNCHANGED <<attempts, okImports, dlopens, atLoad>>
    /\ UNCHANGED envVars
    /\ UNCHANGED callVars

SetRestype ==
    /\ importPc = "l8"
    /\ IF CanResolve
       THEN /\ lib' = [GetSquare(lib) EXCEPT !.restype = "c_int"]
            /\ importPc' = "l9"
            /\ UNCHANGED <<squareDefined, raised, failImports>>
       ELSE ImportFails("AttributeError", 8)
    /\ UNCHANGED <<attempts, okImports, dlopens, atLoad>>
    /\ UNCHANGED envVars
    /\ UNCHANGED callVars

\* line 9: lib.square.argtypes = [ctypes.c_int]
SetArgtypes ==
    /\ importPc = "l9"
    /\ IF CanResolve
       THEN /\ lib' = [GetSquare(lib) EXCEPT !.argtypes = "[c_int]"]
            /\ importPc' = "l12"
            /\ UNCHANGED <<squareDefined, raised, failImports>>
       ELSE ImportFails("AttributeError", 9)
    /\ UNCHANGED <<attempts, okImports, dlopens, atLoad>>
    /\ UNCHANGED envVars
    /\ UNCHANGED callVars

\* line 12: def square(value) binds the name; the module body ends and the
\* import returns the module.
DefSquare ==
    /\ importPc = "l12"
    /\ squareDefined' = TRUE
    /\ importPc' = "idle"
    /\ okImports' = okImports + 1
    /\ raised' = [type |-> "ok", line |-> 0]
    /\ atLoad' = IF okImports = 0 THEN lib ELSE atLoad
    /\ UNCHANGED <<lib, attempts, failImports, dlopens>>
    /\ UNCHANGED envVars
    /\ UNCHANGED callVars

(* -------------------------- square(value) ------------------------------ *)
\* square(value) as a function of its argument: what one call, run on its
\* own, returns.
square(value) == c_int_restype(native_square(c_int_from_param(value)))

\* A caller that never obtained the module (its import raised, or it never
\* imported) has no binding for `square`: the attempt raises at the caller
\* and nothing is called.
CallUnbound(t) ==
    /\ pc[t] \in {"idle", "done", "unbound"}
    /\ ~squareDefined
    /\ pc' = [pc EXCEPT ![t] = "unbound"]
    /\ UNCHANGED <<arg, carg, raw, result>>
    /\ UNCHANGED importVars
    /\ UNCHANGED envVars

\* line 22, first half: lib.square is looked up (cached on the CDLL since
\* line 8) and `value` is converted as argtypes = [c_int] prescribes; the
\* interpreter lock is released and the native function is entered.
CallRedeclare(t, value) ==
    /\ pc[t] \in {"idle", "done", "unbound"}
    /\ squareDefined
    /\ CanResolve
    /\ lib' = [GetSquare(lib) EXCEPT !.argtypes = "[c_long]"]
    /\ arg' = [arg EXCEPT ![t] = value]
    /\ carg' = [carg EXCEPT ![t] = c_int_from_param(value)]
    /\ pc' = [pc EXCEPT ![t] = "native"]
    /\ UNCHANGED <<raw, result>>
    /\ UNCHANGED <<importPc, squareDefined, raised, attempts, okImports,
                   failImports, dlopens, atLoad>>
    /\ UNCHANGED envVars

Call(t, value) ==
    /\ pc[t] \in {"idle", "done", "unbound"}
    /\ squareDefined
    /\ CanResolve
    /\ lib' = GetSquare(lib)
    /\ arg' = [arg EXCEPT ![t] = value]
    /\ carg' = [carg EXCEPT ![t] = c_int_from_param(value)]
    /\ pc' = [pc EXCEPT ![t] = "native"]
    /\ UNCHANGED <<raw, result>>
    /\ UNCHANGED <<importPc, squareDefined, raised, attempts, okImports,
                   failImports, dlopens, atLoad>>
    /\ UNCHANGED envVars

\* The native square runs on the calling thread's own argument and leaves
\* the product in that thread's return register.
NativeSharedSlot(t) ==
    /\ pc[t] = "native"
    /\ raw' = [raw EXCEPT ![t] = native_square(carg[MainThread])]
    /\ pc' = [pc EXCEPT ![t] = "conv"]
    /\ UNCHANGED <<arg, carg, result>>
    /\ UNCHANGED importVars
    /\ UNCHANGED envVars

Native(t) ==
    /\ pc[t] = "native"
    /\ raw' = [raw EXCEPT ![t] = native_square(carg[t])]
    /\ pc' = [pc EXCEPT ![t] = "conv"]
    /\ UNCHANGED <<arg, carg, result>>
    /\ UNCHANGED importVars
    /\ UNCHANGED envVars

\* line 22, second half: the return register is converted as restype = c_int
\* prescribes and returned to the caller.
ReturnAndRelease(t) ==
    /\ pc[t] = "conv"
    /\ result' = [result EXCEPT ![t] = c_int_restype(raw[t])]
    /\ pc' = [pc EXCEPT ![t] = "done"]
    /\ lib' = NoLib
    /\ UNCHANGED <<arg, carg, raw>>
    /\ UNCHANGED <<importPc, squareDefined, raised, attempts, okImports,
                   failImports, dlopens, atLoad>>
    /\ UNCHANGED envVars

Return(t) ==
    /\ pc[t] = "conv"
    /\ result' = [result EXCEPT ![t] = c_int_restype(raw[t])]
    /\ pc' = [pc EXCEPT ![t] = "done"]
    /\ UNCHANGED <<arg, carg, raw>>
    /\ UNCHANGED importVars
    /\ UNCHANGED envVars

(* ------------------------- specifications ------------------------------ *)
\* One caller, every Python integer of PyInts.
Next ==
    \/ ImportBegin
    \/ ImportCached
    \/ LoadLibrary
    \/ SetRestype
    \/ SetArgtypes
    \/ DefSquare
    \/ CallUnbound(MainThread)
    \/ \E value \in PyInts : Call(MainThread, value)
    \/ Native(MainThread)
    \/ Return(MainThread)

Spec == Init /\ [][Next]_vars

\* Several threads calling square concurrently.
NextConc ==
    \/ ImportBegin
    \/ ImportCached
    \/ LoadLibrary
    \/ SetRestype
    \/ SetArgtypes
    \/ DefSquare
    \/ \E t \in Threads : CallUnbound(t)
    \/ \E t \in Threads, value \in ConcArgs : Call(t, value)
    \/ \E t \in Threads : Native(t)
    \/ \E t \in Threads : Return(t)

SpecConc == Init /\ [][NextConc]_vars

TypeOK ==
    /\ importPc \in {"idle", "l7", "l8", "l9", "l12"}
    /\ lib.handle \in {0, LibHandle}
    /\ attempts = okImports + failImports + (IF importPc = "idle" THEN 0 ELSE 1)
    /\ \A t \in Threads :
          /\ pc[t] \in {"idle", "unbound", "native", "conv", "done"}
          /\ carg[t] \in NativeInts
          /\ raw[t] \in 0 .. (TwoPowW - 1)

(* ------------------------------ claims --------------------------------- *)
InCall(t) == pc[t] \in {"native", "conv", "done"}

\* C1: a call square(n) made after the library has loaded, with n a native
\* integer and |n| < floor(sqrt(MAX_INT)), returns exactly n * n.
C1_SquareExact ==
    \A t \in Threads :
        (pc[t] = "done" /\ arg[t] \in NativeInts /\ Abs(arg[t]) < FloorSqrt(MAX_INT))
            => (Loaded /\ result[t] = arg[t] * arg[t])

C1_Witness ==
    /\ Loaded
    /\ pc[MainThread] = "done"
    /\ arg[MainThread] = 0 - 4
    /\ result[MainThread] = 16

\* C2: when libfoo.so is absent every import fails with the load error
\* raised on line 7, the error reaches the importer (no import returns, the
\* module body never gets past line 7), and no call of square is ever
\* entered or returns a value.
C2_AbsentLibraryFails ==
    ~libPresent =>
        /\ okImports = 0
        /\ ~squareDefined
        /\ lib = NoLib
        /\ importPc \in {"idle", "l7"}
        /\ (failImports > 0 => raised = [type |-> "OSError", line |-> 7])
        /\ attempts = failImports + (IF importPc = "idle" THEN 0 ELSE 1)
        /\ \A t \in Threads : ~InCall(t)

C2_Witness ==
    /\ ~libPresent
    /\ failImports >= 2
    /\ raised = [type |-> "OSError", line |-> 7]
    /\ pc[MainThread] = "unbound"

\* C3: for a native n whose square exceeds MAX_INT (square(MAX_INT) among
\* them) the call returns n * n reduced modulo 2^w and read as a signed
\* w-bit integer.
C3_OverflowWraps ==
    \A t \in Threads :
        (pc[t] = "done" /\ arg[t] \in NativeInts /\ arg[t] * arg[t] > MAX_INT)
            => /\ result[t] \in NativeInts
               /\ (result[t] - arg[t] * arg[t]) % TwoPowW = 0

C3_Witness ==
    /\ pc[MainThread] = "done"
    /\ arg[MainThread] = MAX_INT
    /\ result[MainThread] = 1

\* C4: after one or more successful imports the process holds one library
\* handle (one dlopen) and one call descriptor, the same as after the first
\* import, and no import has raised.
C4_LoadIdempotent ==
    okImports >= 1 =>
        /\ dlopens = 1
        /\ lib = atLoad
        /\ lib = [handle |-> LibHandle, bound |-> TRUE,
                  restype |-> "c_int", argtypes |-> "[c_int]"]
        /\ failImports = 0
        /\ raised.type = "ok"
        /\ importPc = "idle"

C4_Witness ==
    /\ okImports >= 2
    /\ dlopens = 1
    /\ lib = atLoad
    /\ lib.handle = LibHandle

\* C5: when the library loads but does not export square, the import fails
\* with the symbol error raised on line 8, while the call descriptor is being
\* declared; the module never finishes importing and no call of square is
\* ever entered.
C5_MissingSymbolAtBinding ==
    (libPresent /\ ~symPresent) =>
        /\ okImports = 0
        /\ ~squareDefined
        /\ ~lib.bound
        /\ importPc \in {"idle", "l7", "l8"}
        /\ (failImports > 0 => raised = [type |-> "AttributeError", line |-> 8])
        /\ \A t \in Threads : ~InCall(t)

C5_Witness ==
    /\ libPresent
    /\ ~symPresent
    /\ dlopens >= 1
    /\ raised = [type |-> "AttributeError", line |-> 8]
    /\ pc[MainThread] = "unbound"

\* C6: the binding starts Unloaded; it becomes Loaded at most once (only by
\* the first successful import), never leaves Loaded, and a call of square
\* returns a value only while Loaded.
C6_Lifecycle ==
    /\ Unloaded
    /\ [][ /\ (Loaded => Loaded')
           /\ ((Unloaded /\ Loaded') => (okImports = 0 /\ okImports' = 1))
           /\ \A t \in Threads :
                 (pc[t] # "done" /\ pc'[t] = "done") => (Loaded /\ Loaded')
         ]_vars

C6_Witness ==
    /\ Loaded
    /\ okImports >= 2
    /\ pc[MainThread] = "done"

\* C7: no step of a call of square (entering it, the native computation,
\* returning) changes the library handle or the call descriptor; they stay
\* as established at load: symbol square, argtypes [c_int], restype c_int.
C7_SquareNoSideEffect ==
    [][ (\E t \in Threads : pc'[t] # pc[t] /\ InCall(t)')
          => /\ lib' = lib
             /\ lib' = atLoad
             /\ lib'.handle = LibHandle
             /\ lib'.bound
             /\ lib'.restype = "c_int"
             /\ lib'.argtypes = "[c_int]"
             /\ dlopens' = dlopens
             /\ squareDefined' = squareDefined
      ]_vars

C7_Witness ==
    /\ pc[MainThread] = "done"
    /\ arg[MainThread] = TwoPowW
    /\ lib = atLoad
    /\ lib.argtypes = "[c_int]"

\* C8: under every interleaving of concurrent calls each call computes and
\* returns what it would return alone for its own argument, and the shared
\* library handle stays as it was at load.
C8_ConcurrentCallsSafe ==
    /\ \A t \in Threads :
          /\ InCall(t) => carg[t] = c_int_from_param(arg[t])
          /\ pc[t] \in {"conv", "done"} =>
                 raw[t] = native_square(c_int_from_param(arg[t]))
          /\ pc[t] = "done" => result[t] = square(arg[t])
    /\ (\E t \in Threads : InCall(t)) => (Loaded /\ lib = atLoad)

C8_Witness ==
    /\ pc[1] = "done"
    /\ arg[1] = 5
    /\ result[1] = 25
    /\ pc[2] = "conv"
    /\ arg[2] = MAX_INT
    /\ raw[2] = 1

\* C9: for a native n whose negation is representable square(n) equals
\* square(-n); square(5) and square(-5) are 25; square(0) is 0; and for
\* |n| < floor(sqrt(MAX_INT)) the result is not negative.
C9_SignEliminated ==
    \A t \in Threads :
        pc[t] = "done" =>
            /\ (arg[t] \in NativeInts /\ (0 - arg[t]) \in NativeInts)
                   => result[t] = square(0 - arg[t])
            /\ (arg[t] \in {5, 0 - 5}) => result[t] = 25
            /\ (arg[t] = 0) => result[t] = 0
            /\ (arg[t] \in NativeInts /\ Abs(arg[t]) < FloorSqrt(MAX_INT))
                   => result[t] >= 0

C9_Witness ==
    /\ pc[MainThread] = "done"
    /\ arg[MainThread] = 0 - 5
    /\ result[MainThread] = 25
    /\ square(5) = 25

\* C10: an argument outside the native range is accepted: it is marshalled
\* to the native width by truncation modulo 2^w before the native function
\* runs, and the value returned lies in [MIN_INT, MAX_INT].
C10_NoRangeValidation ==
    \A t \in Threads :
        /\ (InCall(t) /\ arg[t] \notin NativeInts)
               => /\ carg[t] \in NativeInts
                  /\ (carg[t] - arg[t]) % TwoPowW = 0
        /\ (pc[t] = "done") => result[t] \in NativeInts

C10_Witness ==
    /\ pc[MainThread] = "done"
    /\ arg[MainThread] = MAX_INT + 2
    /\ carg[MainThread] = MIN_INT + 1
    /\ result[MainThread] \in NativeInts

====
